---- MODULE Spec2Model ----
(***************************************************************************)
(* A model of SceneManager (src/Source/SceneManager.cpp): the texture      *)
(* registry, the uniform/material binder, the shadow pass and the colour   *)
(* pass, over an explicit model of the OpenGL context state they mutate.   *)
(*                                                                         *)
(* Conventions.                                                            *)
(*  - A float literal x of the source is the integer 1000 * x (0.045f is   *)
(*    45, 180.0f is 180000); a glm::vec3 is a 3-tuple of such integers.    *)
(*  - bool arguments of setIntValue are stored as the int they convert to  *)
(*    (true -> 1, false -> 0).                                             *)
(*  - A mat4 built from its arguments (model matrix, look-at, perspective) *)
(*    is the record of those arguments.                                    *)
(*  - Every method is an operator from a world record (all the fields      *)
(*    below) to the world record after the call; an action commits it.     *)
(***************************************************************************)
EXTENDS Integers, Sequences, FiniteSets, TLC

VARIABLES
    \* ---- SceneManager members
    m_pShaderManager,       \* NULL or "main"
    m_loadedTextures,       \* int
    m_textureIDs,           \* entries 0 .. m_loadedTextures-1, as a sequence of [ID, tag]
    m_objectMaterials,      \* std::vector<OBJECT_MATERIAL>
    m_shadowFBO,
    m_shadowDepthTexture,
    m_pDepthShaderManager,  \* NULL or "depth"
    m_spotLightSpaceMatrix,
    \* ---- OpenGL context and process heap
    textures,               \* live texture names -> internal format
    framebuffers,           \* live framebuffer names
    activeTexture,          \* glActiveTexture unit index
    boundTexture,           \* unit -> name bound to GL_TEXTURE_2D
    viewport,
    boundFramebuffer,
    currentProgram,         \* program made current by use()
    depthMask,
    uniforms,               \* values written through m_pShaderManager
    depthUniforms,          \* values written through m_pDepthShaderManager
    images,                 \* decoded pixel buffers not yet freed (stbi)
    imageFiles,             \* filename -> what stbi_load yields for it
    \* ---- what the last call did (observation only)
    ret,                    \* its return value
    written,                \* uniform names the last call wrote since its last mesh draw
    draws,                  \* the mesh draws of the last call, each with the state it ran under
    glCalls,                \* the framebuffer / viewport / program / depth-mask calls of the last call
    created,                \* handle glGenTextures gave the i-th entry of the registry
    ub,                     \* "none", or the undefined behaviour the run has hit
    lastCall,               \* the last call, and the shadow pass right before it if any
    \* ---- ViewManager (src/Source/ViewManager.cpp)
    viewManager             \* its members, as a record

vars == <<m_pShaderManager, m_loadedTextures, m_textureIDs, m_objectMaterials,
          m_shadowFBO, m_shadowDepthTexture, m_pDepthShaderManager,
          m_spotLightSpaceMatrix, textures, framebuffers, activeTexture,
          boundTexture, viewport, boundFramebuffer, currentProgram, depthMask,
          uniforms, depthUniforms, images, imageFiles, ret, written, draws,
          glCalls, created, ub, lastCall, viewManager>>

NULL == "NULL"

----------------------------------------------------------------------------
\* Bounds of the model

\* registrations enumerated with free tags and files
MaxRegistered == 3
\* texture names alive at once (leaked names included)
MaxLiveNames == 4

\* capacity of m_textureIDs ("There are up to 16 slots")
MaxTextures == 16

\* texture units of the context
TextureUnits == 0 .. 31

\* entries registered under other tags ahead of the scene's own
MaxFillers == 8

Tags == {"stone", "grass"}
FillerTags == {"marble"}
LookupTags == Tags \cup {"unknown"}

----------------------------------------------------------------------------
\* The world record: every variable a method can read or write

World ==
    [m_pShaderManager |-> m_pShaderManager, m_loadedTextures |-> m_loadedTextures,
     m_textureIDs |-> m_textureIDs, m_objectMaterials |-> m_objectMaterials,
     m_shadowFBO |-> m_shadowFBO, m_shadowDepthTexture |-> m_shadowDepthTexture,
     m_pDepthShaderManager |-> m_pDepthShaderManager,
     m_spotLightSpaceMatrix |-> m_spotLightSpaceMatrix,
     textures |-> textures, framebuffers |-> framebuffers,
     activeTexture |-> activeTexture, boundTexture |-> boundTexture,
     viewport |-> viewport, boundFramebuffer |-> boundFramebuffer,
     currentProgram |-> currentProgram, depthMask |-> depthMask,
     uniforms |-> uniforms, depthUniforms |-> depthUniforms,
     images |-> images, imageFiles |-> imageFiles,
     ret |-> "void", written |-> {}, draws |-> <<>>, glCalls |-> <<>>,
     created |-> created, ub |-> ub]

Commit(w) ==
    /\ m_pShaderManager' = w.m_pShaderManager
    /\ m_loadedTextures' = w.m_loadedTextures
    /\ m_textureIDs' = w.m_textureIDs
    /\ m_objectMaterials' = w.m_objectMaterials
    /\ m_shadowFBO' = w.m_shadowFBO
    /\ m_shadowDepthTexture' = w.m_shadowDepthTexture
    /\ m_pDepthShaderManager' = w.m_pDepthShaderManager
    /\ m_spotLightSpaceMatrix' = w.m_spotLightSpaceMatrix
    /\ textures' = w.textures
    /\ framebuffers' = w.framebuffers
    /\ activeTexture' = w.activeTexture
    /\ boundTexture' = w.boundTexture
    /\ viewport' = w.viewport
    /\ boundFramebuffer' = w.boundFramebuffer
    /\ currentProgram' = w.currentProgram
    /\ depthMask' = w.depthMask
    /\ uniforms' = w.uniforms
    /\ depthUniforms' = w.depthUniforms
    /\ images' = w.images
    /\ imageFiles' = w.imageFiles
    /\ ret' = w.ret
    /\ written' = w.written
    /\ draws' = w.draws
    /\ glCalls' = w.glCalls
    /\ created' = w.created
    /\ ub' = w.ub

\* the call record kept in lastCall
Call(op, arg) == [op |-> op, arg |-> arg]
NoCall == Call("none", <<>>)

\* prev: the call before, kept when it was a shadow pass that ran (the first
\* half of a frame), else NoCall
Record(op, arg) ==
    lastCall' = [last |-> Call(op, arg),
                 prev |-> IF lastCall.last.op = "RenderShadowMap" /\ ret = "void"
                          THEN lastCall.last ELSE NoCall]

----------------------------------------------------------------------------
\* OpenGL calls

\* glGenTextures / glGenFramebuffers: a name not in use, or none (0) on failure
FreshName(inUse) == CHOOSE n \in 1 .. (Cardinality(inUse) + 1) : n \notin inUse

glActiveTexture(w, unit) == [w EXCEPT !.activeTexture = unit]

glBindTexture(w, name) == [w EXCEPT !.boundTexture[w.activeTexture] = name]

glTexImage2D(w, format) ==
    LET name == w.boundTexture[w.activeTexture]
    IN  IF name \in DOMAIN w.textures
        THEN [w EXCEPT !.textures[name] = format]
        ELSE w

glGenTexture(w, name) ==
    IF name = 0 THEN w ELSE [w EXCEPT !.textures = (name :> "none") @@ @]

\* deleting a texture reverts every binding of it to 0
glCall(w, call, arg) ==
    [w EXCEPT !.glCalls = Append(@, [call |-> call, arg |-> arg,
                                      after |-> Len(w.draws)])]

glDeleteTexture(w, name) ==
    glCall([w EXCEPT !.textures = [n \in (DOMAIN @) \ {name} |-> @[n]],
                     !.boundTexture = [u \in TextureUnits |->
                                          IF @[u] = name /\ name # 0 THEN 0 ELSE @[u]]],
           "glDeleteTextures", <<name>>)

glViewport(w, rect) == glCall([w EXCEPT !.viewport = rect], "glViewport", rect)

glBindFramebuffer(w, name) ==
    glCall([w EXCEPT !.boundFramebuffer = name], "glBindFramebuffer", <<name>>)

\* glDepthMask without effect
glDepthMask_Ignored(w, flag) == w

glDepthMask(w, flag) == glCall([w EXCEPT !.depthMask = flag], "glDepthMask", <<flag>>)

----------------------------------------------------------------------------
\* ShaderManager: the named-uniform setters and use()

setValue(w, name, value) ==
    [w EXCEPT !.uniforms = (name :> value) @@ @,
              !.written = @ \cup {name}]

setDepthValue(w, name, value) ==
    [w EXCEPT !.depthUniforms = (name :> value) @@ @]

use(w, program) == glCall([w EXCEPT !.currentProgram = program], "use", <<program>>)

\* the value the program holds for a uniform: the one last written, or the
\* zero a linked program starts every uniform with
UniformValue(values, name) == IF name \in DOMAIN values THEN values[name] ELSE 0

\* ShapeMeshes: Draw*Mesh. The draw is recorded with the state it runs under.
DrawMesh(w, object, mesh, flags) ==
    [w EXCEPT !.draws = Append(@, [object |-> object, mesh |-> mesh, flags |-> flags,
                                   program |-> w.currentProgram,
                                   uniforms |-> w.uniforms,
                                   depthUniforms |-> w.depthUniforms,
                                   written |-> w.written,
                                   boundTexture |-> w.boundTexture,
                                   boundFramebuffer |-> w.boundFramebuffer,
                                   viewport |-> w.viewport,
                                   depthMask |-> w.depthMask]),
              !.written = {}]

----------------------------------------------------------------------------
\* Texture registry

\* stbi_load: NULL, or a pixel buffer with 1 to 4 channels
NoImage == [ok |-> FALSE, channels |-> 0]
Image(c) == [ok |-> TRUE, channels |-> c]

\* line 108 with the test of the decoder's result lost
Decoded_Always(image) == TRUE

\* line 108: if (image)
Decoded(image) == image.ok

\* lines 123-132 with the final else branch lost
SupportedChannels_Any(colorChannels) == TRUE

\* lines 123-132: the RGB and RGBA layouts are uploaded, any other is refused
SupportedChannels(colorChannels) == colorChannels \in {3, 4}

\* the write m_textureIDs[m_loadedTextures] = {ID, tag}; m_loadedTextures++.
\* With the array full the write is out of bounds: undefined behaviour, which
\* either ends the process or lands in the memory after the array.
RegisterTexture(w, textureID, tag, oob) ==
    IF w.m_loadedTextures < MaxTextures
    THEN [w EXCEPT !.m_textureIDs = Append(@, [ID |-> textureID, tag |-> tag]),
                   !.m_loadedTextures = @ + 1]
    ELSE IF oob = "crash"
         THEN [w EXCEPT !.ub = "crashed"]
         ELSE [w EXCEPT !.m_textureIDs = Append(@, [ID |-> textureID, tag |-> tag]),
                        !.m_loadedTextures = @ + 1,
                        !.ub = "out-of-bounds write"]

CreateGLTexture(w, filename, tag, genOk, oob) ==
    LET image == w.imageFiles[filename]
        w1 == [w EXCEPT !.images = @ + 1]                       \* stbi_load
        textureID == IF genOk THEN FreshName(DOMAIN w1.textures) ELSE 0
        w2 == glGenTexture(w1, textureID)
        w3 == glBindTexture(w2, textureID)
        w4 == IF image.channels = 3 THEN glTexImage2D(w3, "GL_RGB8")
              ELSE glTexImage2D(w3, "GL_RGBA8")
        w5 == [w4 EXCEPT !.images = @ - 1]                      \* stbi_image_free
        w6 == glBindTexture(w5, 0)
        w7 == RegisterTexture(w6, textureID, tag, oob)
    IN  IF Decoded(image)
        THEN IF SupportedChannels(image.channels)
             THEN IF w7.ub = "crashed" THEN w7
                  ELSE [w7 EXCEPT !.ret = TRUE, !.created = Append(@, textureID)]
             ELSE [w3 EXCEPT !.ret = FALSE]
        ELSE [w EXCEPT !.ret = FALSE]

RECURSIVE BindLoop(_, _)
BindLoop(w, i) ==
    IF i < w.m_loadedTextures
    THEN BindLoop(glBindTexture(glActiveTexture(w, i), w.m_textureIDs[i + 1].ID), i + 1)
    ELSE w

BindGLTextures(w) ==
    LET w1 == BindLoop(w, 0)
    IN  IF w1.m_pShaderManager # NULL THEN setValue(w1, "objectTexture", 0) ELSE w1

RECURSIVE DestroyLoop(_, _)
DestroyLoop(w, i) ==
    IF i < w.m_loadedTextures
    THEN DestroyLoop(IF w.m_textureIDs[i + 1].ID # 0
                     THEN [glDeleteTexture(w, w.m_textureIDs[i + 1].ID)
                              EXCEPT !.m_textureIDs[i + 1].ID = 0]
                     ELSE w,
                     i + 1)
    ELSE w

\* DestroyGLTextures with the reset of line 193 lost
DestroyGLTextures_CountKept(w) == DestroyLoop(w, 0)

\* the entries at and above m_loadedTextures are never read: they are dropped
DestroyGLTextures(w) ==
    [DestroyLoop(w, 0) EXCEPT !.m_loadedTextures = 0, !.m_textureIDs = <<>>,
                              !.created = <<>>]

RECURSIVE FindTextureIDLoop(_, _, _)
FindTextureIDLoop(w, tag, index) ==
    IF index < w.m_loadedTextures
    THEN IF w.m_textureIDs[index + 1].tag = tag
         THEN w.m_textureIDs[index + 1].ID
         ELSE FindTextureIDLoop(w, tag, index + 1)
    ELSE -1

FindTextureID(w, tag) == FindTextureIDLoop(w, tag, 0)

RECURSIVE FindTextureSlotLoop(_, _, _)
FindTextureSlotLoop(w, tag, index) ==
    IF index < w.m_loadedTextures
    THEN IF w.m_textureIDs[index + 1].tag = tag
         THEN index
         ELSE FindTextureSlotLoop(w, tag, index + 1)
    ELSE -1

\* FindTextureSlot counting the slots from 1
FindTextureSlot_OneBased(w, tag) ==
    IF FindTextureSlotLoop(w, tag, 0) < 0 THEN -1 ELSE FindTextureSlotLoop(w, tag, 0) + 1

FindTextureSlot(w, tag) == FindTextureSlotLoop(w, tag, 0)

----------------------------------------------------------------------------
\* Materials

\* what an OBJECT_MATERIAL declared without an initialiser may hold
Indeterminate ==
    { [diffuseColor |-> <<d, d, d>>, specularColor |-> <<s, s, s>>, shininess |-> sh] :
        d \in {0, 1000}, s \in {0, 500}, sh \in {0, 32000} }

\* the loop of FindMaterial: the material found, or the argument as it was passed in
RECURSIVE FindMaterialLoop(_, _, _, _)
FindMaterialLoop(w, tag, material, index) ==
    IF index < Len(w.m_objectMaterials)
    THEN IF w.m_objectMaterials[index + 1].tag = tag
         THEN [diffuseColor |-> w.m_objectMaterials[index + 1].diffuseColor,
               specularColor |-> w.m_objectMaterials[index + 1].specularColor,
               shininess |-> w.m_objectMaterials[index + 1].shininess]
         ELSE FindMaterialLoop(w, tag, material, index + 1)
    ELSE material

\* [ret, material]: the bool returned and the out-parameter after the call
FindMaterial(w, tag, material) ==
    IF Len(w.m_objectMaterials) = 0
    THEN [ret |-> FALSE, material |-> material]
    ELSE [ret |-> TRUE, material |-> FindMaterialLoop(w, tag, material, 0)]

----------------------------------------------------------------------------
\* Uniform / material binder

SetTransformations(w, scaleXYZ, XrotationDegrees, YrotationDegrees, ZrotationDegrees, positionXYZ) ==
    LET modelView == [scale |-> scaleXYZ, rotX |-> XrotationDegrees,
                      rotY |-> YrotationDegrees, rotZ |-> ZrotationDegrees,
                      translation |-> positionXYZ]
    IN  IF w.m_pShaderManager # NULL THEN setValue(w, "model", modelView) ELSE w

\* SetShaderColor with the write of line 341 lost
SetShaderColor_TextureKept(w, redColorValue, greenColorValue, blueColorValue, alphaValue) ==
    LET currentColor == <<redColorValue, greenColorValue, blueColorValue, alphaValue>>
    IN  IF w.m_pShaderManager # NULL
        THEN setValue(w, "objectColor", currentColor)
        ELSE w

SetShaderColor(w, redColorValue, greenColorValue, blueColorValue, alphaValue) ==
    LET currentColor == <<redColorValue, greenColorValue, blueColorValue, alphaValue>>
    IN  IF w.m_pShaderManager # NULL
        THEN setValue(setValue(w, "bUseTexture", 0), "objectColor", currentColor)
        ELSE w

\* SetShaderTexture with the fallback of lines 361-364 lost
SetShaderTexture_NoFallback(w, textureTag) ==
    LET w1 == setValue(w, "bUseTexture", 1)
        textureSlot == FindTextureSlot(w1, textureTag)
        w2 == glActiveTexture(w1, textureSlot)
        textureID == FindTextureID(w2, textureTag)
        w3 == IF textureID > 0 THEN glBindTexture(w2, textureID) ELSE w2
    IN  IF w.m_pShaderManager # NULL
        THEN setValue(w3, "objectTexture", textureSlot)
        ELSE w

SetShaderTexture(w, textureTag) ==
    LET w1 == setValue(w, "bUseTexture", 1)
        found == FindTextureSlot(w1, textureTag)
        textureSlot == IF found < 0 THEN 0 ELSE found
        w2 == glActiveTexture(w1, textureSlot)
        textureID == FindTextureID(w2, textureTag)
        w3 == IF textureID > 0 THEN glBindTexture(w2, textureID) ELSE w2
    IN  IF w.m_pShaderManager # NULL
        THEN setValue(w3, "objectTexture", textureSlot)
        ELSE w

SetTextureUVScale(w, u, v) ==
    IF w.m_pShaderManager # NULL THEN setValue(w, "UVscale", <<u, v>>) ELSE w

\* `material` is the local OBJECT_MATERIAL before FindMaterial fills it.
\* Line 407 calls a setter through m_pShaderManager with no test of the
\* pointer: with a null pointer the setter reads its object at address 0.
SetShaderMaterial(w, materialTag, material) ==
    LET found == FindMaterial(w, materialTag, material)
        w1 == setValue(w, "material.diffuseColor", found.material.diffuseColor)
        w2 == setValue(w1, "material.specularColor", found.material.specularColor)
        w3 == setValue(w2, "material.shininess", found.material.shininess)
    IN  IF Len(w.m_objectMaterials) > 0
        THEN IF found.ret = TRUE
             THEN IF w.m_pShaderManager = NULL THEN [w EXCEPT !.ub = "crashed"] ELSE w3
             ELSE w
        ELSE w

----------------------------------------------------------------------------
\* PrepareScene

RECURSIVE SetAll(_, _)
SetAll(w, pairs) ==
    IF pairs = <<>> THEN w
    ELSE SetAll(setValue(w, Head(pairs)[1], Head(pairs)[2]), Tail(pairs))

\* lines 445-482: lighting path, default material, the lights
SceneDefaults ==
    << <<"bUseLighting", 1>>,
       <<"material.diffuseColor", <<1000, 1000, 1000>> >>,
       <<"material.specularColor", <<500, 500, 500>> >>,
       <<"material.shininess", 32000>>,
       <<"directionalLight.direction", <<-200, -1000, -300>> >>,
       <<"directionalLight.ambient", <<150, 150, 150>> >>,
       <<"directionalLight.diffuse", <<300, 300, 300>> >>,
       <<"directionalLight.specular", <<1000, 1000, 1000>> >>,
       <<"directionalLight.bActive", 1>>,
       <<"pointLights[0].position", <<2000, 6000, 2000>> >>,
       <<"pointLights[0].ambient", <<80, 80, 80>> >>,
       <<"pointLights[0].diffuse", <<350, 350, 350>> >>,
       <<"pointLights[0].specular", <<350, 350, 350>> >>,
       <<"pointLights[0].bActive", 1>>,
       <<"pointLights[1].bActive", 0>>,
       <<"pointLights[2].bActive", 0>>,
       <<"pointLights[3].bActive", 0>>,
       <<"pointLights[4].bActive", 0>>,
       <<"spotLight.cutOff", 951>>,          \* cos(18 degrees)
       <<"spotLight.outerCutOff", 899>>,     \* cos(26 degrees)
       <<"spotLight.constant", 1000>>,
       <<"spotLight.linear", 45>>,
       <<"spotLight.quadratic", 8>>,
       <<"spotLight.ambient", <<20, 20, 20>> >>,
       <<"spotLight.diffuse", <<1100, 1100, 1100>> >>,
       <<"spotLight.specular", <<1100, 1100, 1100>> >>,
       <<"spotLight.bActive", 1>> >>

\* lines 489-507: the shadow framebuffer and its depth texture, made when
\* m_shadowFBO is 0. fboOk / texOk: whether glGenFramebuffers / glGenTextures
\* gave a name (on failure the member keeps its value).
InitShadowResources(w, fboOk, texOk) ==
    LET fbo == IF fboOk THEN FreshName(w.framebuffers) ELSE w.m_shadowFBO
        w1 == [w EXCEPT !.m_shadowFBO = fbo,
                        !.framebuffers = IF fboOk THEN @ \cup {fbo} ELSE @]
        tex == IF texOk THEN FreshName(DOMAIN w1.textures) ELSE w1.m_shadowDepthTexture
        w2 == [(IF texOk THEN glGenTexture(w1, tex) ELSE w1)
                  EXCEPT !.m_shadowDepthTexture = tex]
        w3 == glBindTexture(w2, w2.m_shadowDepthTexture)
        w4 == glTexImage2D(w3, "GL_DEPTH_COMPONENT24")
        w5 == glBindFramebuffer(w4, w4.m_shadowFBO)
        w6 == glBindFramebuffer(w5, 0)
    IN  IF w.m_shadowFBO = 0 THEN w6 ELSE w

InitDepthShader(w) ==
    IF w.m_pDepthShaderManager = NULL
    THEN [w EXCEPT !.m_pDepthShaderManager = "depth"]
    ELSE w

PrepareScene(w, genStone, genGrass, fboOk, texOk, oob) ==
    LET w1 == CreateGLTexture(w, "textures/stone.png", "stone", genStone, oob)
        w2 == CreateGLTexture(w1, "textures/grass.png", "grass", genGrass, oob)
        w3 == BindGLTextures(w2)
        w4 == IF w3.m_pShaderManager # NULL THEN SetAll(w3, SceneDefaults) ELSE w3
        w5 == InitShadowResources(w4, fboOk, texOk)
        w6 == InitDepthShader(w5)
    IN  IF w1.ub = "crashed" THEN w1
        ELSE IF w2.ub = "crashed" THEN w2
        ELSE [w6 EXCEPT !.ret = "void"]

----------------------------------------------------------------------------
\* RenderScene

\* lines 536-542 and 815-821
BindShadowMap(w) ==
    IF w.m_shadowDepthTexture # 0
    THEN LET w1 == glBindTexture(glActiveTexture(w, 7), w.m_shadowDepthTexture)
             w2 == setValue(w1, "spotShadowMap", 7)
         IN  setValue(w2, "spotLightSpaceMatrix", w.m_spotLightSpaceMatrix)
    ELSE w

\* the three material uniforms written directly
SetMaterialValues(w, diffuse, specular, shininess) ==
    LET w1 == setValue(w, "material.diffuseColor", diffuse)
        w2 == setValue(w1, "material.specularColor", specular)
    IN  setValue(w2, "material.shininess", shininess)

Grey(x) == <<x, x, x>>

\* lines 544-577
RenderPlane(w) ==
    LET w1 == SetTransformations(w, <<20000, 1000, 10000>>, 0, 0, 0, <<0, 0, 0>>)
        w2 == setValue(w1, "bUseLighting", 1)
        w3 == SetMaterialValues(w2, Grey(1000), Grey(400), 32000)
        w4 == SetShaderTexture(w3, "stone")
        w5 == SetTextureUVScale(w4, 16000, 16000)
    IN  DrawMesh(w5, "plane", "Plane", <<>>)

\* lines 579-606
RenderSaucer(w) ==
    LET w1 == SetTransformations(w, <<2600, 20, 2600>>, 0, 0, 0, <<0, 0, 0>>)
        w2 == setValue(w1, "bUseLighting", 1)
        w3 == SetMaterialValues(w2, Grey(600), Grey(1000), 128000)
        w4 == SetShaderColor(w3, 1000, 970, 880, 1000)
        w5 == SetTextureUVScale(w4, 1000, 1000)
        w6 == glDepthMask(w5, TRUE)
    IN  DrawMesh(w6, "saucer", "Cylinder", <<TRUE, TRUE, TRUE>>)

\* lines 608-627
RenderSaucerRim(w) ==
    LET w1 == SetTransformations(w, <<2600, 30, 2600>>, 0, 0, 0, <<0, 30, 0>>)
        w2 == SetMaterialValues(w1, Grey(550), Grey(1000), 128000)
        w3 == SetShaderColor(w2, 980, 950, 860, 1000)
        w4 == DrawMesh(w3, "saucerRim", "Cylinder", <<FALSE, TRUE, TRUE>>)
    IN  glDepthMask(w4, TRUE)

\* lines 629-662
RenderOuterMug(w) ==
    LET w1 == SetTransformations(w, <<1500, 2000, 1500>>, 180000, 0, 0, <<0, 2100, 0>>)
        w2 == setValue(w1, "bUseLighting", 1)
        w3 == SetMaterialValues(w2, Grey(1000), Grey(250), 24000)
        w4 == SetShaderTexture(w3, "grass")
        w5 == SetTextureUVScale(w4, 2000, 1000)
    IN  DrawMesh(w5, "outerMug", "TaperedCylinder", <<TRUE, FALSE, TRUE>>)

\* lines 666-698
RenderInnerMug(w) ==
    LET w1 == SetTransformations(w, <<1460, 1960, 1460>>, 180000, 0, 0, <<0, 2110, 0>>)
        w2 == setValue(w1, "bUseLighting", 1)
        w3 == SetMaterialValues(w2, Grey(1000), Grey(250), 24000)
        w4 == SetShaderTexture(w3, "grass")
        w5 == SetTextureUVScale(w4, 1000, 1000)
    IN  DrawMesh(w5, "innerMug", "TaperedCylinder", <<FALSE, FALSE, TRUE>>)

\* lines 700-721
RenderStraw(w) ==
    LET w1 == SetTransformations(w, <<80, 2960, 80>>, -32250, 150000, 0, <<-450, 250, -120>>)
        w2 == SetMaterialValues(w1, Grey(1000), Grey(350), 32000)
        w3 == SetShaderColor(w2, 960, 960, 920, 1000)
    IN  DrawMesh(w3, "straw", "Cylinder", <<TRUE, TRUE, TRUE>>)

\* lines 723-773 with the clear of line 773 lost
RenderLiquidSurface_FlagKept(w, glfwGetTime) ==
    LET w1 == SetTransformations(w, <<1300, 10, 1300>>, 500, 0, 300, <<0, 1780, 0>>)
        w2 == setValue(w1, "bUseLighting", 1)
        w3 == SetShaderColor(w2, 200, 450, 900, 700)
        w4 == setValue(w3, "bIsLiquidSurface", 1)
        w5 == setValue(w4, "timeSeconds", glfwGetTime \div 2)
        w6 == setValue(w5, "rippleParams", <<3000, 22000>>)
        w7 == SetMaterialValues(w6, <<1000, 950, 800>>, <<1000, 1000, 1000>>, 96000)
        w8 == setValue(w7, "rippleAmplitude", 100)
        w9 == DrawMesh(w8, "liquidSurface", "Cylinder", <<TRUE, FALSE, FALSE>>)
    IN  glDepthMask(w9, TRUE)

\* lines 723-773; glfwGetTime is what glfwGetTime() returns
RenderLiquidSurface(w, glfwGetTime) ==
    LET w1 == SetTransformations(w, <<1300, 10, 1300>>, 500, 0, 300, <<0, 1780, 0>>)
        w2 == setValue(w1, "bUseLighting", 1)
        w3 == SetShaderColor(w2, 200, 450, 900, 700)
        w4 == setValue(w3, "bIsLiquidSurface", 1)
        w5 == setValue(w4, "timeSeconds", glfwGetTime \div 2)
        w6 == setValue(w5, "rippleParams", <<3000, 22000>>)
        w7 == SetMaterialValues(w6, <<1000, 950, 800>>, <<1000, 1000, 1000>>, 96000)
        w8 == setValue(w7, "rippleAmplitude", 100)
        w9 == DrawMesh(w8, "liquidSurface", "Cylinder", <<TRUE, FALSE, FALSE>>)
        w10 == glDepthMask(w9, TRUE)
    IN  setValue(w10, "bIsLiquidSurface", 0)

\* lines 779-811
RenderMugBottom(w) ==
    LET w1 == SetTransformations(w, <<1000, 100, 1000>>, 0, 0, 0, <<0, 60, 0>>)
        w2 == setValue(w1, "bUseLighting", 1)
        w3 == SetShaderTexture(w2, "grass")
        w4 == SetTextureUVScale(w3, 1000, 1000)
        w5 == DrawMesh(w4, "mugBottom", "Cylinder", <<TRUE, TRUE, FALSE>>)
    IN  setValue(w5, "bUseLighting", 1)

\* With no shader manager the first m_pShaderManager-> call dereferences a
\* null pointer (line 540 when the shadow texture exists, else line 567).
RenderScene(w, glfwGetTime) ==
    LET w1 == BindShadowMap(w)
        w2 == RenderPlane(w1)
        w3 == RenderSaucer(w2)
        w4 == RenderSaucerRim(w3)
        w5 == RenderOuterMug(w4)
        w6 == RenderInnerMug(w5)
        w7 == RenderStraw(w6)
        w8 == RenderLiquidSurface(w7, glfwGetTime)
        w9 == RenderMugBottom(w8)
        w10 == BindShadowMap(w9)
    IN  IF w.m_pShaderManager = NULL
        THEN [(IF w.m_shadowDepthTexture # 0
               THEN glBindTexture(glActiveTexture(w, 7), w.m_shadowDepthTexture)
               ELSE w) EXCEPT !.ub = "crashed"]
        ELSE [w10 EXCEPT !.ret = "void"]

----------------------------------------------------------------------------
\* RenderShadowMap

\* m_shadowMapWidth, m_shadowMapHeight
ShadowMapWidth == 2048
ShadowMapHeight == 2048

Sign(x) == IF x > 0 THEN 1 ELSE IF x < 0 THEN -1 ELSE 0

\* glm::normalize, on the axis-aligned directions the model enumerates
Normalize(v) == <<1000 * Sign(v[1]), 1000 * Sign(v[2]), 1000 * Sign(v[3])>>

Add(a, b) == <<a[1] + b[1], a[2] + b[2], a[3] + b[3]>>

Perspective(fov, aspect, near, far) ==
    [fov |-> fov, aspect |-> aspect, near |-> near, far |-> far]

LookAt(eye, center, up) == [eye |-> eye, center |-> center, up |-> up]

\* lightProjection * lightView
Product(projection, view) == [kind |-> "projection*view", projection |-> projection,
                              view |-> view]

\* glm::mat4(1.0f)
Identity == [kind |-> "identity", projection |-> Perspective(0, 0, 0, 0),
             view |-> LookAt(<<0, 0, 0>>, <<0, 0, 0>>, <<0, 0, 0>>)]

LightProjection ==
    Perspective(48000, (1000 * ShadowMapWidth) \div ShadowMapHeight, 50, 80000)

LightView(lightPosition, lightDirection) ==
    LookAt(lightPosition, Add(lightPosition, Normalize(lightDirection)), <<0, 1000, 0>>)

LightSpaceMatrix(lightPosition, lightDirection) ==
    Product(LightProjection, LightView(lightPosition, lightDirection))

\* setDepthModel with the scale matrix left out of the product
DepthDraw_Unscaled(w, object, scaleXYZ, Xdeg, Ydeg, Zdeg, posXYZ, mesh, flags) ==
    LET model == [scale |-> <<1000, 1000, 1000>>, rotX |-> Xdeg, rotY |-> Ydeg,
                  rotZ |-> Zdeg, translation |-> posXYZ]
    IN  DrawMesh(setDepthValue(w, "model", model), object, mesh, flags)

\* the lambda setDepthModel followed by the draw it prepares
DepthDraw(w, object, scaleXYZ, Xdeg, Ydeg, Zdeg, posXYZ, mesh, flags) ==
    LET model == [scale |-> scaleXYZ, rotX |-> Xdeg, rotY |-> Ydeg, rotZ |-> Zdeg,
                  translation |-> posXYZ]
    IN  DrawMesh(setDepthValue(w, "model", model), object, mesh, flags)

\* lines 865-894
DepthDraws(w) ==
    LET w1 == DepthDraw(w, "plane", <<20000, 1000, 10000>>, 0, 0, 0, <<0, 0, 0>>,
                        "Plane", <<>>)
        w2 == DepthDraw(w1, "saucer", <<2600, 20, 2600>>, 0, 0, 0, <<0, 0, 0>>,
                        "Cylinder", <<TRUE, TRUE, TRUE>>)
        w3 == DepthDraw(w2, "saucerRim", <<2600, 30, 2600>>, 0, 0, 0, <<0, 30, 0>>,
                        "Cylinder", <<FALSE, TRUE, TRUE>>)
        w4 == DepthDraw(w3, "outerMug", <<1500, 2000, 1500>>, 180000, 0, 0, <<0, 2100, 0>>,
                        "TaperedCylinder", <<TRUE, FALSE, TRUE>>)
        w5 == DepthDraw(w4, "innerMug", <<1460, 1960, 1460>>, 180000, 0, 0, <<0, 2110, 0>>,
                        "TaperedCylinder", <<FALSE, FALSE, TRUE>>)
        w6 == DepthDraw(w5, "liquidSurface", <<1300, 10, 1300>>, 500, 0, 300, <<0, 1780, 0>>,
                        "Cylinder", <<TRUE, FALSE, FALSE>>)
        w7 == DepthDraw(w6, "mugBottom", <<1000, 100, 1000>>, 0, 0, 0, <<0, 60, 0>>,
                        "Cylinder", <<TRUE, TRUE, FALSE>>)
    IN  DepthDraw(w7, "straw", <<80, 2960, 80>>, -24000, -18000, 0, <<-450, 2600, -120>>,
                  "Cylinder", <<TRUE, TRUE, TRUE>>)

\* line 837 lost: the matrix is computed and not stored
StoreLightSpaceMatrix_Dropped(w, lightSpaceMatrix) == w

\* line 837
StoreLightSpaceMatrix(w, lightSpaceMatrix) ==
    [w EXCEPT !.m_spotLightSpaceMatrix = lightSpaceMatrix]

\* lines 897-899 with the restore of the saved viewport lost
RestoreViewport_Lost(w, prevViewport) == glBindFramebuffer(w, 0)

\* lines 897-899: the default framebuffer and the saved viewport come back
RestoreViewport(w, prevViewport) == glViewport(glBindFramebuffer(w, 0), prevViewport)

\* the guard of line 827
ShadowPassSkipped(w) == w.m_shadowFBO = 0 \/ w.m_pDepthShaderManager = NULL

RenderShadowMap(w, lightPosition, lightDirection) ==
    LET lightProjection == LightProjection
        lightView == LightView(lightPosition, lightDirection)
        w1 == StoreLightSpaceMatrix(w, Product(lightProjection, lightView))
        prevViewport == w1.viewport
        w2 == glCall(w1, "glGetIntegerv", prevViewport)
        w3 == glViewport(w2, <<0, 0, ShadowMapWidth, ShadowMapHeight>>)
        w4 == glBindFramebuffer(w3, w3.m_shadowFBO)
        w5 == glCall(w4, "glClear", <<"GL_DEPTH_BUFFER_BIT">>)
        w5e == glCall(w5, "glEnable", <<"GL_DEPTH_TEST">>)
        w6 == use(w5e, w5e.m_pDepthShaderManager)
        w7 == setDepthValue(w6, "view", lightView)
        w8 == setDepthValue(w7, "projection", lightProjection)
        w9 == DepthDraws(w8)
        w11 == RestoreViewport(w9, prevViewport)
    IN  IF ShadowPassSkipped(w) THEN [w EXCEPT !.ret = "skipped"]
        ELSE [w11 EXCEPT !.ret = "void"]

----------------------------------------------------------------------------
\* ~SceneManager (lines 57-79)

\* deleting the framebuffer that is bound reverts the binding to 0
glDeleteFramebuffer(w, name) ==
    [w EXCEPT !.framebuffers = @ \ {name},
              !.boundFramebuffer = IF @ = name THEN 0 ELSE @]

Destructor(w) ==
    LET w1 == [w EXCEPT !.m_pShaderManager = NULL]
        w2 == IF w1.m_shadowDepthTexture # 0
              THEN [glDeleteTexture(w1, w1.m_shadowDepthTexture)
                       EXCEPT !.m_shadowDepthTexture = 0]
              ELSE w1
        w3 == IF w2.m_shadowFBO # 0
              THEN [glDeleteFramebuffer(w2, w2.m_shadowFBO) EXCEPT !.m_shadowFBO = 0]
              ELSE w2
    IN  IF w3.m_pDepthShaderManager # NULL
        THEN [w3 EXCEPT !.m_pDepthShaderManager = NULL]
        ELSE w3

----------------------------------------------------------------------------
\* ViewManager (src/Source/ViewManager.cpp)

\* the members after construction (lines 56-74, and the initialisers of
\* m_rippleMin and m_rippleMax in ViewManager.h)
ViewManager(pShaderManager) ==
    [m_pShaderManager |-> pShaderManager,
     m_pWindow |-> NULL,
     m_bPerspectiveProjection |-> TRUE,
     m_bPKeyPressed |-> FALSE,
     m_bOKeyPressed |-> FALSE,
     m_rippleAmplitude |-> 100,
     m_rippleStep |-> 10,
     m_rippleMin |-> 0,
     m_rippleMax |-> 200,
     shouldClose |-> FALSE]

\* glfwCreateWindow gives a window, or NULL
CreateDisplayWindow(v, window) ==
    IF window = NULL THEN v ELSE [v EXCEPT !.m_pWindow = window]

\* glm::clamp without its bounds
Clamp_None(x, minVal, maxVal) == x

\* glm::clamp(x, minVal, maxVal) = min(max(x, minVal), maxVal)
Clamp(x, minVal, maxVal) ==
    LET lower == IF x < minVal THEN minVal ELSE x
    IN  IF lower > maxVal THEN maxVal ELSE lower

\* glfwGetKey(m_pWindow, key) == GLFW_PRESS, with `keys` the keys held
Pressed(keys, key) == key \in keys

\* ProcessProjectionKeys acting on the key's level, not on its press edge
ProcessProjectionKeys_Level(v, keys) ==
    LET v1 == IF Pressed(keys, "P")
              THEN [v EXCEPT !.m_bPerspectiveProjection = TRUE, !.m_bPKeyPressed = TRUE]
              ELSE [v EXCEPT !.m_bPKeyPressed = FALSE]
    IN  IF Pressed(keys, "O")
        THEN [v1 EXCEPT !.m_bPerspectiveProjection = FALSE, !.m_bOKeyPressed = TRUE]
        ELSE [v1 EXCEPT !.m_bOKeyPressed = FALSE]

\* lines 220-249
ProcessProjectionKeys(v, keys) ==
    LET v1 == IF Pressed(keys, "P")
              THEN IF ~ v.m_bPKeyPressed
                   THEN [v EXCEPT !.m_bPerspectiveProjection = TRUE, !.m_bPKeyPressed = TRUE]
                   ELSE v
              ELSE [v EXCEPT !.m_bPKeyPressed = FALSE]
    IN  IF Pressed(keys, "O")
        THEN IF ~ v1.m_bOKeyPressed
             THEN [v1 EXCEPT !.m_bPerspectiveProjection = FALSE, !.m_bOKeyPressed = TRUE]
             ELSE v1
        ELSE [v1 EXCEPT !.m_bOKeyPressed = FALSE]

\* lines 382-397
ProcessRippleControls(v, keys) ==
    LET v1 == IF Pressed(keys, "I")
              THEN [v EXCEPT !.m_rippleAmplitude =
                        Clamp(@ + v.m_rippleStep, v.m_rippleMin, v.m_rippleMax)]
              ELSE v
        v2 == IF Pressed(keys, "U")
              THEN [v1 EXCEPT !.m_rippleAmplitude =
                        Clamp(@ - v1.m_rippleStep, v1.m_rippleMin, v1.m_rippleMax)]
              ELSE v1
    IN  IF v.m_pWindow = NULL THEN v ELSE v2

\* lines 196-212. With none of the movement keys held and the camera at
\* rest, ProcessSmoothMovement leaves the camera where it is.
ProcessKeyboardEvents(v, keys) ==
    LET v1 == IF Pressed(keys, "ESCAPE") THEN [v EXCEPT !.shouldClose = TRUE] ELSE v
        v2 == ProcessProjectionKeys(v1, keys)
    IN  ProcessRippleControls(v2, keys)

\* the camera of lines 76-82, which no modelled input moves
CameraPosition == <<0, 5000, 12000>>
CameraFront == <<0, -500, -2000>>

\* lines 320-332
Projection(v) ==
    IF v.m_bPerspectiveProjection
    THEN [kind |-> "perspective", fov |-> 80000, near |-> 100, far |-> 100000]
    ELSE [kind |-> "ortho", size |-> 10000, near |-> 100, far |-> 100000]

\* lines 335-351: the uniforms PrepareSceneView writes, `v` being the
\* ViewManager after the keyboard was processed
PrepareSceneViewUniforms(w, v) ==
    IF v.m_pShaderManager # NULL
    THEN SetAll(w, << <<"view", LookAt(CameraPosition, Add(CameraPosition, CameraFront),
                                       <<0, 1000, 0>>)>>,
                      <<"projection", Projection(v)>>,
                      <<"viewPosition", CameraPosition>>,
                      <<"rippleAmplitude", v.m_rippleAmplitude>>,
                      <<"spotLight.position", CameraPosition>>,
                      <<"spotLight.direction", Normalize(CameraFront)>> >>)
    ELSE w

----------------------------------------------------------------------------
\* Inputs the model enumerates

FileSystem(stone, grass) ==
    ("textures/stone.png" :> stone) @@ ("textures/grass.png" :> grass) @@
    ("textures/gray.png" :> Image(1)) @@ ("textures/missing.png" :> NoImage)

FileSystems ==
    { FileSystem(Image(3), Image(4)), FileSystem(Image(3), Image(2)),
      FileSystem(NoImage, NoImage) }

\* CreateGLTexture(filename, tag) calls enumerated: each file under its own tag
Registrations ==
    { <<"textures/stone.png", "stone">>, <<"textures/grass.png", "grass">>,
      <<"textures/gray.png", "stone">>, <<"textures/missing.png", "grass">> }

Glass == [tag |-> "glass", diffuseColor |-> <<600, 600, 600>>,
          specularColor |-> <<1000, 1000, 1000>>, shininess |-> 128000]
Wood == [tag |-> "wood", diffuseColor |-> <<300, 200, 100>>,
         specularColor |-> <<100, 100, 100>>, shininess |-> 300]

MaterialLists == { <<>>, <<Glass>>, <<Glass, Wood>> }
MaterialTags == {"glass", "wood"}

LightPositions == { <<2000, 6000, 2000>>, <<0, 5000, 12000>> }
LightDirections == { <<0, -1000, 0>>, <<0, 0, -2000>> }
Times == {0, 2000}
Colors == { <<1000, 970, 880, 1000>>, <<200, 450, 900, 700>> }
UVScales == { <<1000, 1000>>, <<16000, 16000>> }
\* the keys a poll may find held
Keys == {"P", "O", "I", "U", "ESCAPE"}
Scales == { <<1000, 1000, 1000>>, <<2600, 20, 2600>> }
Angles == {0, 180000}
Positions == { <<0, 0, 0>>, <<0, 2100, 0>> }

----------------------------------------------------------------------------
\* The state after construction (lines 39-50), in a fresh context

InitOf(pShaderManager, materials, files) ==
    /\ m_pShaderManager = pShaderManager
    /\ m_loadedTextures = 0
    /\ m_textureIDs = <<>>
    /\ m_objectMaterials = materials
    /\ m_shadowFBO = 0
    /\ m_shadowDepthTexture = 0
    /\ m_pDepthShaderManager = NULL
    /\ m_spotLightSpaceMatrix = Identity
    /\ textures = <<>>
    /\ framebuffers = {}
    /\ activeTexture = 0
    /\ boundTexture = [u \in TextureUnits |-> 0]
    /\ viewport = <<0, 0, 1000, 800>>
    /\ boundFramebuffer = 0
    /\ currentProgram = "main"
    /\ depthMask = TRUE
    /\ uniforms = <<>>
    /\ depthUniforms = <<>>
    /\ images = 0
    /\ imageFiles = files
    /\ ret = "void"
    /\ written = {}
    /\ draws = <<>>
    /\ glCalls = <<>>
    /\ created = <<>>
    /\ ub = "none"
    /\ lastCall = [last |-> NoCall, prev |-> NoCall]
    /\ viewManager = ViewManager("main")

\* constructed with the shader manager of the main program
InitWith(materials, files) == InitOf("main", materials, files)

Init == \E materials \in MaterialLists, files \in FileSystems : InitWith(materials, files)

----------------------------------------------------------------------------
\* Actions: one call of one method

\* the process has not crashed and the object has not been destroyed
Running == ub # "crashed" /\ lastCall.last.op # "~SceneManager"
Room == m_loadedTextures < MaxRegistered /\ Cardinality(DOMAIN textures) < MaxLiveNames

CallCreateGLTexture ==
    \E r \in Registrations :
        /\ Running /\ Room
        /\ Commit(CreateGLTexture(World, r[1], r[2], TRUE, "crash"))
        /\ Record("CreateGLTexture", r)
        /\ UNCHANGED viewManager

CallBindGLTextures ==
    /\ Running
    /\ Commit(BindGLTextures(World))
    /\ Record("BindGLTextures", <<>>)
    /\ UNCHANGED viewManager

CallDestroyGLTextures ==
    /\ Running
    /\ Commit(DestroyGLTextures(World))
    /\ Record("DestroyGLTextures", <<>>)
    /\ UNCHANGED viewManager

CallFindTextureID ==
    \E tag \in LookupTags :
        /\ Running
        /\ Commit([World EXCEPT !.ret = FindTextureID(World, tag)])
        /\ Record("FindTextureID", <<tag>>)
        /\ UNCHANGED viewManager

CallFindTextureSlot ==
    \E tag \in LookupTags :
        /\ Running
        /\ Commit([World EXCEPT !.ret = FindTextureSlot(World, tag)])
        /\ Record("FindTextureSlot", <<tag>>)
        /\ UNCHANGED viewManager

CallSetShaderTexture ==
    \E tag \in LookupTags :
        /\ Running
        /\ Commit(SetShaderTexture(World, tag))
        /\ Record("SetShaderTexture", <<tag>>)
        /\ UNCHANGED viewManager

CallSetTransformations ==
    \E scaleXYZ \in Scales, XrotationDegrees \in Angles, positionXYZ \in Positions :
        /\ Running
        /\ Commit(SetTransformations(World, scaleXYZ, XrotationDegrees, 0, 0, positionXYZ))
        /\ Record("SetTransformations", <<scaleXYZ, XrotationDegrees, 0, 0, positionXYZ>>)
        /\ UNCHANGED viewManager

CallSetShaderColor ==
    \E c \in Colors :
        /\ Running
        /\ Commit(SetShaderColor(World, c[1], c[2], c[3], c[4]))
        /\ Record("SetShaderColor", c)
        /\ UNCHANGED viewManager

CallSetTextureUVScale ==
    \E uv \in UVScales :
        /\ Running
        /\ Commit(SetTextureUVScale(World, uv[1], uv[2]))
        /\ Record("SetTextureUVScale", uv)
        /\ UNCHANGED viewManager

CallSetShaderMaterial ==
    \E tag \in MaterialTags, material \in Indeterminate :
        /\ Running
        /\ Commit(SetShaderMaterial(World, tag, material))
        /\ Record("SetShaderMaterial", <<tag>>)
        /\ UNCHANGED viewManager

CallPrepareScene ==
    \E fboOk \in BOOLEAN, texOk \in BOOLEAN :
        /\ Running /\ Room
        /\ Commit(PrepareScene(World, TRUE, TRUE, fboOk, texOk, "crash"))
        /\ Record("PrepareScene", <<>>)
        /\ UNCHANGED viewManager

CallRenderShadowMap ==
    \E lightPosition \in LightPositions, lightDirection \in LightDirections :
        /\ Running
        /\ Commit(RenderShadowMap(World, lightPosition, lightDirection))
        /\ Record("RenderShadowMap", <<lightPosition, lightDirection>>)
        /\ UNCHANGED viewManager

CallRenderScene ==
    \E glfwGetTime \in Times :
        /\ Running
        /\ Commit(RenderScene(World, glfwGetTime))
        /\ Record("RenderScene", <<glfwGetTime>>)
        /\ UNCHANGED viewManager

\* the view: window creation and the per-frame keyboard poll
CallCreateDisplayWindow ==
    \E window \in {NULL, "window"} :
        /\ Running /\ viewManager.m_pWindow = NULL
        /\ viewManager' = CreateDisplayWindow(viewManager, window)
        /\ Commit(World)
        /\ lastCall' = [last |-> Call("CreateDisplayWindow", <<window>>), prev |-> NoCall]

\* the frame loop runs once the window exists
CallPrepareSceneView ==
    \E keys \in SUBSET Keys :
        /\ Running /\ viewManager.m_pWindow # NULL
        /\ viewManager' = ProcessKeyboardEvents(viewManager, keys)
        /\ Commit(PrepareSceneViewUniforms(World, ProcessKeyboardEvents(viewManager, keys)))
        /\ lastCall' = [last |-> Call("PrepareSceneView", keys), prev |-> NoCall]

CallDestructor ==
    /\ Running
    /\ Commit(Destructor(World))
    /\ Record("~SceneManager", <<>>)
    /\ UNCHANGED viewManager

Next ==
    \/ CallCreateGLTexture
    \/ CallBindGLTextures
    \/ CallDestroyGLTextures
    \/ CallFindTextureID
    \/ CallFindTextureSlot
    \/ CallSetShaderTexture
    \/ CallSetTransformations
    \/ CallSetShaderColor
    \/ CallSetTextureUVScale
    \/ CallSetShaderMaterial
    \/ CallPrepareScene
    \/ CallRenderShadowMap
    \/ CallRenderScene
    \/ CallDestructor
    \/ CallCreateDisplayWindow
    \/ CallPrepareSceneView

Spec == Init /\ [][Next]_vars

\* the texture registry on its own
InitRegistry == InitWith(<<>>, FileSystem(Image(3), Image(4)))

NextRegistry ==
    \/ CallCreateGLTexture
    \/ CallBindGLTextures
    \/ CallDestroyGLTextures
    \/ CallFindTextureID
    \/ CallFindTextureSlot

SpecRegistry == InitRegistry /\ [][NextRegistry]_vars

\* the binder on its own
InitBinder == \E materials \in MaterialLists : InitWith(materials, FileSystem(NoImage, NoImage))

NextBinder ==
    \/ CallSetShaderMaterial
    \/ CallSetShaderColor
    \/ CallSetTextureUVScale
    \/ CallSetShaderTexture
    \/ CallPrepareScene

SpecBinder == InitBinder /\ [][NextBinder]_vars

\* frames: scene preparation, the shadow pass, the colour pass
InitFrame == \E files \in FileSystems : InitWith(<<>>, files)

NextFrame ==
    \/ CallPrepareScene
    \/ CallRenderShadowMap
    \/ CallRenderScene

SpecFrame == InitFrame /\ [][NextFrame]_vars

\* the registry filled to its capacity and past it
InitCapacity == InitWith(<<>>, FileSystem(Image(3), Image(4)))

CallCreateGLTextureAtAnySize ==
    \E oob \in {"crash", "overrun"} :
        /\ Running /\ m_loadedTextures <= MaxTextures
        /\ Commit(CreateGLTexture(World, "textures/stone.png", "stone", TRUE, oob))
        /\ Record("CreateGLTexture", <<"textures/stone.png", "stone">>)
        /\ UNCHANGED viewManager

CallPrepareSceneAtAnySize ==
    \E oob \in {"crash", "overrun"} :
        /\ Running /\ m_loadedTextures <= MaxTextures
        /\ Commit(PrepareScene(World, TRUE, TRUE, TRUE, TRUE, oob))
        /\ Record("PrepareScene", <<>>)
        /\ UNCHANGED viewManager

NextCapacity ==
    \/ CallCreateGLTextureAtAnySize
    \/ CallPrepareSceneAtAnySize

SpecCapacity == InitCapacity /\ [][NextCapacity]_vars

\* registries long enough for a tag to resolve to the unit of the shadow map
InitUnits == InitWith(<<>>, FileSystem(Image(3), Image(4)))

CallCreateGLTextureWithTag ==
    \E tag \in FillerTags :
        /\ Running /\ m_loadedTextures < MaxFillers
        /\ Commit(CreateGLTexture(World, "textures/stone.png", tag, TRUE, "crash"))
        /\ Record("CreateGLTexture", <<"textures/stone.png", tag>>)
        /\ UNCHANGED viewManager

NextUnits ==
    \/ CallCreateGLTextureWithTag
    \/ CallPrepareSceneAtAnySize
    \/ CallRenderScene

SpecUnits == InitUnits /\ [][NextUnits]_vars

\* a SceneManager constructed with no shader manager
InitNull ==
    \E materials \in MaterialLists, files \in FileSystems : InitOf(NULL, materials, files)

NextNull ==
    \/ CallSetTransformations
    \/ CallSetShaderColor
    \/ CallSetShaderTexture
    \/ CallSetTextureUVScale
    \/ CallSetShaderMaterial
    \/ CallBindGLTextures
    \/ CallPrepareScene
    \/ CallRenderScene

SpecNull == InitNull /\ [][NextNull]_vars

\* the view on its own: window creation and the per-frame keyboard poll
InitView == InitWith(<<>>, FileSystem(Image(3), Image(4)))

NextView ==
    \/ CallCreateDisplayWindow
    \/ CallPrepareSceneView

SpecView == InitView /\ [][NextView]_vars

\* the lifetime of the resources: made, released, torn down
InitLifetime == InitWith(<<>>, FileSystem(Image(3), Image(4)))

NextLifetime ==
    \/ CallCreateGLTexture
    \/ CallPrepareScene
    \/ CallDestroyGLTextures
    \/ CallDestructor

SpecLifetime == InitLifetime /\ [][NextLifetime]_vars

\* texture selection over a filled registry
InitSampler == InitWith(<<>>, FileSystem(Image(3), Image(4)))

NextSampler ==
    \/ CallCreateGLTexture
    \/ CallBindGLTextures
    \/ CallSetShaderTexture

SpecSampler == InitSampler /\ [][NextSampler]_vars

----------------------------------------------------------------------------
\* Properties

MaterialUniforms == {"material.diffuseColor", "material.specularColor", "material.shininess"}

\* the state a draw needs: transform, colour or texture, UV scale, material
FullStateWritten(d) ==
    /\ "model" \in d.written
    /\ ("objectColor" \in d.written \/ "objectTexture" \in d.written)
    /\ "UVscale" \in d.written
    /\ MaterialUniforms \subseteq d.written

\* C1: in RenderScene every mesh draw is preceded, since the previous mesh
\* draw, by a write of the model transform, of the colour or the texture
\* selection, of the UV scale and of the three material uniforms.
C1_FullStateBeforeEveryDraw ==
    lastCall.last.op = "RenderScene" =>
        \A i \in 1 .. Len(draws) : FullStateWritten(draws[i])

\* the values the last call uploaded to spotLightSpaceMatrix
LightSpaceUploads ==
    { draws[i].uniforms["spotLightSpaceMatrix"] :
        i \in { j \in 1 .. Len(draws) : "spotLightSpaceMatrix" \in draws[j].written } }
    \cup (IF "spotLightSpaceMatrix" \in written
          THEN {uniforms["spotLightSpaceMatrix"]} ELSE {})

\* C2: when RenderScene follows a shadow pass that ran, every value it uploads
\* to spotLightSpaceMatrix is the projection * view of that pass's light; it
\* uploads the initial identity only while no shadow pass has run yet.
C2_SceneUsesThisFramesMatrix ==
    lastCall.last.op = "RenderScene" =>
        /\ lastCall.prev.op = "RenderShadowMap" =>
              \A m \in LightSpaceUploads :
                  m = LightSpaceMatrix(lastCall.prev.arg[1], lastCall.prev.arg[2])
        /\ Identity \in LightSpaceUploads => "view" \notin DOMAIN depthUniforms

C2_Witness ==
    /\ lastCall.last.op = "RenderScene"
    /\ lastCall.prev.op = "RenderShadowMap"
    /\ Len(draws) = 8
    /\ LightSpaceUploads =
          {LightSpaceMatrix(<<0, 5000, 12000>>, <<0, 0, -2000>>)}

DistinctTags ==
    \A i, j \in 1 .. Len(m_textureIDs) :
        i # j => m_textureIDs[i].tag # m_textureIDs[j].tag

\* C3: after registrations with pairwise distinct tags and BindGLTextures,
\* the i-th registered tag (from 0) resolves to slot i and to the handle that
\* registration created, and unit i holds that handle.
C3_LookupFollowsRegistrationOrder ==
    (lastCall.last.op = "BindGLTextures" /\ DistinctTags) =>
        \A i \in 1 .. m_loadedTextures :
            /\ FindTextureSlot(World, m_textureIDs[i].tag) = i - 1
            /\ FindTextureID(World, m_textureIDs[i].tag) = created[i]
            /\ boundTexture[i - 1] = created[i]

C3_Witness ==
    /\ lastCall.last.op = "BindGLTextures"
    /\ DistinctTags
    /\ m_loadedTextures = 2
    /\ created = <<2, 3>>
    /\ FindTextureSlot(World, "grass") = 1
    /\ FindTextureID(World, "grass") = 3

KnownMaterialTags == { m_objectMaterials[i].tag : i \in 1 .. Len(m_objectMaterials) }

UnsupportedLoad ==
    /\ lastCall'.last.op = "CreateGLTexture"
    /\ imageFiles[lastCall'.last.arg[1]].ok
    /\ imageFiles[lastCall'.last.arg[1]].channels \notin {3, 4}

\* a step that is CreateGLTexture on a file that does not decode
FailedLoad ==
    /\ lastCall'.last.op = "CreateGLTexture"
    /\ ~ imageFiles[lastCall'.last.arg[1]].ok

\* C5: CreateGLTexture on an image with a channel count other than 3 or 4
\* returns false, leaves no texture name it allocated alive, leaves the
\* GL_TEXTURE_2D binding of the active unit as it was and frees the pixels.
C5_UnsupportedLoadHasNoSideEffects ==
    [][UnsupportedLoad =>
          /\ ret' = FALSE
          /\ DOMAIN textures' = DOMAIN textures
          /\ boundTexture'[activeTexture'] = boundTexture[activeTexture]
          /\ images' = images]_vars

\* C6: CreateGLTexture on an image with an unsupported channel count returns
\* false and leaves m_loadedTextures and every entry of the registry as it was.
C6_UnsupportedLoadKeepsRegistry ==
    [][UnsupportedLoad =>
          /\ ret' = FALSE
          /\ m_loadedTextures' = m_loadedTextures
          /\ m_textureIDs' = m_textureIDs]_vars

C6_Witness ==
    /\ lastCall.last = Call("CreateGLTexture", <<"textures/gray.png", "stone">>)
    /\ ret = FALSE
    /\ m_loadedTextures = 2

\* C7: CreateGLTexture on a file that does not decode returns false,
\* allocates no texture name, changes no binding and leaves the registry
\* as it was.
C7_FailedLoadHasNoSideEffects ==
    [][FailedLoad =>
          /\ ret' = FALSE
          /\ textures' = textures
          /\ boundTexture' = boundTexture
          /\ activeTexture' = activeTexture
          /\ images' = images
          /\ m_loadedTextures' = m_loadedTextures
          /\ m_textureIDs' = m_textureIDs]_vars

C7_Witness ==
    /\ lastCall.last = Call("CreateGLTexture", <<"textures/missing.png", "grass">>)
    /\ ret = FALSE
    /\ m_loadedTextures = 2
    /\ textures # <<>>

\* C8: CreateGLTexture with the registry full (16 entries) returns failure
\* and leaves the registry as it was; the entry count never exceeds 16.
C8_CapacityIsEnforced ==
    [][/\ m_loadedTextures' <= MaxTextures
       /\ (m_loadedTextures = MaxTextures /\ lastCall'.last.op = "CreateGLTexture") =>
              /\ ret' = FALSE
              /\ m_textureIDs' = m_textureIDs
              /\ m_loadedTextures' = m_loadedTextures
              /\ ub' = "none"]_vars

EntriesOf(tag) == { i \in 1 .. m_loadedTextures : m_textureIDs[i].tag = tag }

Last(S) == CHOOSE i \in S : \A j \in S : j <= i

\* C9: a tag registered more than once resolves to its later registration:
\* FindTextureSlot and FindTextureID return the slot and the handle of the
\* last entry that carries the tag.
C9_LastRegistrationWins ==
    \A tag \in Tags :
        EntriesOf(tag) # {} =>
            /\ FindTextureSlot(World, tag) = Last(EntriesOf(tag)) - 1
            /\ FindTextureID(World, tag) = m_textureIDs[Last(EntriesOf(tag))].ID

ShadowResourcesMissing ==
    m_shadowFBO = 0 \/ m_shadowDepthTexture = 0 \/ m_pDepthShaderManager = NULL

\* C10: with the shadow framebuffer or the shadow depth texture not
\* allocated (handle 0), or no depth program, RenderShadowMap does nothing:
\* no viewport change, no framebuffer bind, no program switch, no draw, no
\* new light-space matrix; RenderScene still issues its eight draws.
C10_ShadowPassSkippedWithoutResources ==
    [][/\ (lastCall'.last.op = "RenderShadowMap" /\ ShadowResourcesMissing) =>
              /\ viewport' = viewport
              /\ boundFramebuffer' = boundFramebuffer
              /\ currentProgram' = currentProgram
              /\ glCalls' = <<>>
              /\ draws' = <<>>
              /\ m_spotLightSpaceMatrix' = m_spotLightSpaceMatrix
       /\ lastCall'.last.op = "RenderScene" => Len(draws') = 8]_vars

\* the calls of the last call to one OpenGL entry point, in order
CallsTo(entry) == SelectSeq(glCalls, LAMBDA c : c.call = entry)

\* C11: a shadow pass that runs binds the shadow framebuffer once and the
\* default framebuffer once after it, reads the viewport once and sets it
\* back to the value read; the RenderScene that follows touches neither and
\* ends with bUseLighting true and bIsLiquidSurface false.
C11_OneBindPairOneViewportPair ==
    /\ (lastCall.last.op = "RenderShadowMap" /\ ret = "void") =>
          /\ Len(CallsTo("glBindFramebuffer")) = 2
          /\ CallsTo("glBindFramebuffer")[1].arg = <<m_shadowFBO>>
          /\ CallsTo("glBindFramebuffer")[2].arg = <<0>>
          /\ boundFramebuffer = 0
          /\ Len(CallsTo("glGetIntegerv")) = 1
          /\ Len(CallsTo("glViewport")) = 2
          /\ CallsTo("glViewport")[1].arg = <<0, 0, ShadowMapWidth, ShadowMapHeight>>
          /\ CallsTo("glViewport")[2].arg = CallsTo("glGetIntegerv")[1].arg
          /\ viewport = CallsTo("glGetIntegerv")[1].arg
    /\ (lastCall.last.op = "RenderScene" /\ lastCall.prev.op = "RenderShadowMap") =>
          /\ CallsTo("glBindFramebuffer") = <<>>
          /\ CallsTo("glViewport") = <<>>
          /\ CallsTo("glGetIntegerv") = <<>>
          /\ uniforms["bUseLighting"] = 1
          /\ uniforms["bIsLiquidSurface"] = 0

C11_Witness ==
    /\ lastCall.last.op = "RenderScene"
    /\ lastCall.prev = Call("RenderShadowMap", << <<2000, 6000, 2000>>, <<0, -1000, 0>> >>)
    /\ m_loadedTextures = 2
    /\ m_textureIDs[1].tag = "stone" /\ m_textureIDs[2].tag = "grass"
    /\ boundTexture[0] = m_textureIDs[1].ID /\ boundTexture[1] = m_textureIDs[2].ID
    /\ viewport = <<0, 0, 1000, 800>>
    /\ boundFramebuffer = 0
    /\ Len(draws) = 8

\* C12: SetShaderTexture with a tag no entry of the registry carries sets
\* bUseTexture to true, makes unit 0 the active unit, sets the objectTexture
\* sampler to 0, changes no texture binding and raises no error.
C12_UnknownTextureSelectsUnitZero ==
    [][(lastCall'.last.op = "SetShaderTexture" /\ EntriesOf(lastCall'.last.arg[1]) = {}) =>
          /\ uniforms'["bUseTexture"] = 1
          /\ activeTexture' = 0
          /\ uniforms'["objectTexture"] = 0
          /\ boundTexture' = boundTexture
          /\ textures' = textures
          /\ ret' = "void"
          /\ ub' = ub]_vars

C12_Witness ==
    /\ lastCall.last = Call("SetShaderTexture", <<"unknown">>)
    /\ m_loadedTextures = 2
    /\ boundTexture[1] = m_textureIDs[2].ID
    /\ activeTexture = 0
    /\ uniforms["bUseTexture"] = 1

Lookups == {"FindTextureSlot", "FindTextureID"}

\* C13: DestroyGLTextures deletes the handle of every entry of the registry
\* and sets m_loadedTextures to 0; a second call right after it deletes
\* nothing and changes nothing; a lookup right after it returns -1.
C13_DestroyFreesAllOnce ==
    [][/\ lastCall'.last.op = "DestroyGLTextures" =>
              /\ \A i \in 1 .. m_loadedTextures :
                     /\ m_textureIDs[i].ID \notin DOMAIN textures'
                     /\ \E k \in 1 .. Len(glCalls') :
                            glCalls'[k] = [call |-> "glDeleteTextures",
                                           arg |-> <<m_textureIDs[i].ID>>, after |-> 0]
              /\ m_loadedTextures' = 0
       /\ (lastCall.last.op = "DestroyGLTextures" /\ lastCall'.last.op = "DestroyGLTextures") =>
              /\ glCalls' = <<>>
              /\ textures' = textures
              /\ boundTexture' = boundTexture
              /\ activeTexture' = activeTexture
              /\ m_textureIDs' = m_textureIDs
              /\ m_loadedTextures' = m_loadedTextures
       /\ (lastCall.last.op = "DestroyGLTextures" /\ lastCall'.last.op \in Lookups) =>
              ret' = -1]_vars

C13_Witness ==
    /\ lastCall.last.op = "DestroyGLTextures"
    /\ Len(CallsTo("glDeleteTextures")) = 2
    /\ m_loadedTextures = 0
    /\ DOMAIN textures = {1}

\* C14: once the SceneManager is destroyed, no handle that a successful
\* CreateGLTexture put in the registry, and that DestroyGLTextures has not
\* released, is still a live texture name.
C14_TeardownFreesRegisteredTextures ==
    lastCall.last.op = "~SceneManager" =>
        \A i \in 1 .. Len(created) : created[i] \notin DOMAIN textures

\* the live textures that were given depth storage by lines 493-494
DepthTextures == { n \in DOMAIN textures : textures[n] = "GL_DEPTH_COMPONENT24" }

\* C15: whatever names the allocations return, PrepareScene allocates the
\* shadow framebuffer and the shadow depth texture at most once (never two
\* alive together, none made besides the one the members hold), and the
\* destructor leaves none of them, and no depth program, behind.
C15_ShadowResourcesAllocatedOnce ==
    /\ Cardinality(DepthTextures) <= 1
    /\ Cardinality(framebuffers) <= 1
    /\ DepthTextures \subseteq {m_shadowDepthTexture}
    /\ framebuffers \subseteq {m_shadowFBO}
    /\ lastCall.last.op = "~SceneManager" =>
          /\ DepthTextures = {}
          /\ framebuffers = {}
          /\ m_pDepthShaderManager = NULL

\* the objects of the scene, one mesh draw each
SceneObjects == {"plane", "saucer", "saucerRim", "outerMug", "innerMug", "straw",
                 "liquidSurface", "mugBottom"}

DrawnObjects == { draws[i].object : i \in 1 .. Len(draws) }

\* the draws whose colour-or-texture call was SetShaderColor
ColouredDraws ==
    { i \in 1 .. Len(draws) :
        "objectColor" \in draws[i].written /\ "objectTexture" \notin draws[i].written }

\* C16: with no texture registered, a shadow pass that runs and RenderScene
\* each draw all eight objects and hit no undefined behaviour, and every
\* draw of RenderScene set up through SetShaderColor runs with bUseTexture
\* false.
C16_FrameWithoutTextures ==
    (m_loadedTextures = 0 /\ lastCall.last.op \in {"RenderShadowMap", "RenderScene"}) =>
        /\ ub = "none"
        /\ (lastCall.last.op = "RenderScene" \/ ret = "void") =>
              (Len(draws) = 8 /\ DrawnObjects = SceneObjects)
        /\ lastCall.last.op = "RenderScene" =>
              \A i \in ColouredDraws : draws[i].uniforms["bUseTexture"] = 0

C16_Witness ==
    /\ m_loadedTextures = 0
    /\ lastCall.last.op = "RenderScene"
    /\ lastCall.prev.op = "RenderShadowMap"
    /\ textures = <<"GL_DEPTH_COMPONENT24">>
    /\ { draws[i].object : i \in ColouredDraws } =
          {"saucer", "saucerRim", "straw", "liquidSurface"}

\* the position in the last call's draws of the draw of an object
DrawIndex(object) == CHOOSE i \in 1 .. Len(draws) : draws[i].object = object

OpaqueObjects == SceneObjects \ {"liquidSurface"}

\* C17: in RenderScene the liquid surface (alpha 0.7) is drawn after the
\* draw of each opaque object: plane, saucer, saucer rim, outer mug, inner
\* mug, straw and mug bottom.
C17_LiquidDrawnAfterOpaque ==
    lastCall.last.op = "RenderScene" =>
        /\ draws[DrawIndex("liquidSurface")].uniforms["objectColor"][4] = 700
        /\ \A object \in OpaqueObjects : DrawIndex(object) < DrawIndex("liquidSurface")

\* the mesh draws of a sequence of draws: object, primitive, flags
MeshDraws(ds) ==
    { [object |-> ds[i].object, mesh |-> ds[i].mesh, flags |-> ds[i].flags] :
        i \in 1 .. Len(ds) }

\* the model matrix the draw of an object ran under
ModelOf(ds, object, pass) ==
    LET d == ds[CHOOSE i \in 1 .. Len(ds) : ds[i].object = object]
    IN  IF pass = "depth" THEN d.depthUniforms["model"] ELSE d.uniforms["model"]

\* the draws RenderScene issues from the current state
SceneDraws == RenderScene(World, 0).draws

\* C18: a shadow pass that runs issues one mesh draw per scene object, with
\* the primitive and the flags RenderScene uses for it; the model transform
\* of every object but the straw equals the one of RenderScene; the straw's
\* differs in its rotation and in the vertical component of its position
\* and in nothing else.
C18_ShadowPassDrawsTheScene ==
    (lastCall.last.op = "RenderShadowMap" /\ ret = "void") =>
        /\ Len(draws) = Len(SceneDraws)
        /\ MeshDraws(draws) = MeshDraws(SceneDraws)
        /\ DrawnObjects = SceneObjects
        /\ \A object \in SceneObjects \ {"straw"} :
               ModelOf(draws, object, "depth") = ModelOf(SceneDraws, object, "main")
        /\ LET depth == ModelOf(draws, "straw", "depth")
               main == ModelOf(SceneDraws, "straw", "main")
           IN  /\ depth.scale = main.scale
               /\ depth.translation[1] = main.translation[1]
               /\ depth.translation[3] = main.translation[3]
               /\ depth.translation[2] # main.translation[2]
               /\ <<depth.rotX, depth.rotY, depth.rotZ>> # <<main.rotX, main.rotY, main.rotZ>>

C18_Witness ==
    /\ lastCall.last.op = "RenderShadowMap"
    /\ ret = "void"
    /\ Len(draws) = 8
    /\ ModelOf(draws, "straw", "depth").translation = <<-450, 2600, -120>>
    /\ ModelOf(SceneDraws, "straw", "main").translation = <<-450, 250, -120>>
    /\ ModelOf(draws, "outerMug", "depth") = ModelOf(SceneDraws, "outerMug", "main")

\* C19: in every RenderScene, the first frame and the later ones alike,
\* bIsLiquidSurface is true at the draw of the liquid surface and false at
\* every other draw; it is written before the liquid draw and written again
\* (to false) before the draw that follows.
C19_LiquidFlagOnlyAtLiquidDraw ==
    lastCall.last.op = "RenderScene" =>
        /\ \A i \in 1 .. Len(draws) :
               UniformValue(draws[i].uniforms, "bIsLiquidSurface") =
                   (IF draws[i].object = "liquidSurface" THEN 1 ELSE 0)
        /\ "bIsLiquidSurface" \in draws[DrawIndex("liquidSurface")].written
        /\ DrawIndex("liquidSurface") < Len(draws) =>
               "bIsLiquidSurface" \in draws[DrawIndex("liquidSurface") + 1].written
        /\ UniformValue(uniforms, "bIsLiquidSurface") = 0

\* a frame after the first: the flag has been written before the first draw
C19_Witness ==
    /\ lastCall.last.op = "RenderScene"
    /\ Len(draws) = 8
    /\ "bIsLiquidSurface" \in DOMAIN draws[1].uniforms
    /\ draws[1].uniforms["bIsLiquidSurface"] = 0
    /\ draws[DrawIndex("liquidSurface")].uniforms["bIsLiquidSurface"] = 1

\* C20: RenderScene calls glDepthMask(GL_TRUE) after the draw of the liquid
\* surface and before the draw that follows it, and every opaque object is
\* drawn with depth writes enabled.
C20_DepthWritesReenabled ==
    lastCall.last.op = "RenderScene" =>
        /\ \E k \in 1 .. Len(glCalls) :
               glCalls[k] = [call |-> "glDepthMask", arg |-> <<TRUE>>,
                             after |-> DrawIndex("liquidSurface")]
        /\ \A i \in 1 .. Len(draws) :
               draws[i].object \in OpaqueObjects => draws[i].depthMask = TRUE
        /\ depthMask = TRUE

C20_Witness ==
    /\ lastCall.last.op = "RenderScene"
    /\ DrawIndex("liquidSurface") = 7
    /\ draws[8].object = "mugBottom"
    /\ draws[8].depthMask = TRUE
    /\ Len(CallsTo("glDepthMask")) = 3

\* C21: RenderShadowMap returns with the program, the viewport and the
\* framebuffer binding it was called with, and every draw of a RenderScene
\* runs with the main program current.
C21_ShadowPassRestoresProgram ==
    [][/\ lastCall'.last.op = "RenderShadowMap" =>
              /\ currentProgram' = currentProgram
              /\ viewport' = viewport
              /\ boundFramebuffer' = boundFramebuffer
       /\ lastCall'.last.op = "RenderScene" =>
              \A i \in 1 .. Len(draws') : draws'[i].program = "main"]_vars

\* the texture unit RenderScene gives the shadow map
ShadowMapUnit == 7

\* C22: with the shadow depth texture made, it is the texture bound to unit
\* 7 at every mesh draw of RenderScene, whatever the number of entries of
\* the registry and the slots "stone" and "grass" resolve to.
C22_ShadowMapKeepsItsUnit ==
    (lastCall.last.op = "RenderScene" /\ m_shadowDepthTexture # 0) =>
        \A i \in 1 .. Len(draws) :
            draws[i].boundTexture[ShadowMapUnit] = m_shadowDepthTexture

ShaderOperations ==
    {"SetTransformations", "SetShaderColor", "SetShaderTexture", "SetTextureUVScale",
     "SetShaderMaterial", "BindGLTextures", "PrepareScene", "RenderScene"}

\* C23: with m_pShaderManager null, each of SetTransformations,
\* SetShaderColor, SetShaderTexture, SetTextureUVScale, SetShaderMaterial,
\* BindGLTextures, PrepareScene and RenderScene returns without
\* dereferencing the pointer and without writing a uniform.
C23_NullShaderManagerIsNeverDereferenced ==
    [][(m_pShaderManager = NULL /\ lastCall'.last.op \in ShaderOperations) =>
          /\ ub' = "none"
          /\ uniforms' = uniforms
          /\ written' = {}]_vars

RippleInRange(v) ==
    v.m_rippleMin <= v.m_rippleAmplitude /\ v.m_rippleAmplitude <= v.m_rippleMax

\* C24: after every keyboard poll, whatever keys are held, m_rippleAmplitude
\* is within m_rippleMin .. m_rippleMax (0.0 .. 0.2); a poll with I held and
\* U not raises it by m_rippleStep (0.01) unless it is at the maximum, and a
\* poll with U held and I not lowers it by that step unless it is at the
\* minimum.
C24_RippleAmplitudeClamped ==
    [][lastCall'.last.op = "PrepareSceneView" =>
          LET keys == lastCall'.last.arg
              before == viewManager.m_rippleAmplitude
              after == viewManager'.m_rippleAmplitude
          IN  /\ RippleInRange(viewManager) /\ RippleInRange(viewManager')
              /\ viewManager'.m_rippleMin = 0 /\ viewManager'.m_rippleMax = 200
              /\ ("I" \in keys /\ "U" \notin keys) =>
                    after = (IF before = viewManager.m_rippleMax THEN before
                             ELSE before + viewManager.m_rippleStep)
              /\ ("U" \in keys /\ "I" \notin keys) =>
                    after = (IF before = viewManager.m_rippleMin THEN before
                             ELSE before - viewManager.m_rippleStep)]_vars

\* a poll with I held that finds the amplitude at the maximum
C24_Witness ==
    /\ lastCall.last = Call("PrepareSceneView", {"I"})
    /\ viewManager.m_rippleAmplitude = viewManager.m_rippleMax
    /\ uniforms["rippleAmplitude"] = 200

\* the poll before this step found `key` pressed (no poll yet: released)
HeldBefore(key) == lastCall.last.op = "PrepareSceneView" /\ key \in lastCall.last.arg

\* a poll that finds `key` pressed after the poll before found it released
PressEdge(key) == key \in lastCall'.last.arg /\ ~ HeldBefore(key)

\* C25: over a poll the projection mode changes only if P or O goes from
\* released to pressed; a press edge of O selects orthographic, whether or
\* not P has one too; a press edge of P alone selects perspective; with no
\* edge (keys released, or held since an earlier poll) the mode stays; and
\* after the poll m_bPKeyPressed and m_bOKeyPressed are the states the poll
\* found the keys in.
C25_ProjectionChangesOnPressEdge ==
    [][lastCall'.last.op = "PrepareSceneView" =>
          LET edgeP == PressEdge("P")
              edgeO == PressEdge("O")
          IN  /\ edgeO => viewManager'.m_bPerspectiveProjection = FALSE
              /\ (edgeP /\ ~ edgeO) => viewManager'.m_bPerspectiveProjection = TRUE
              /\ (~ edgeP /\ ~ edgeO) =>
                    viewManager'.m_bPerspectiveProjection = viewManager.m_bPerspectiveProjection
              /\ viewManager'.m_bPKeyPressed = ("P" \in lastCall'.last.arg)
              /\ viewManager'.m_bOKeyPressed = ("O" \in lastCall'.last.arg)
              /\ uniforms'["projection"].kind =
                    (IF viewManager'.m_bPerspectiveProjection THEN "perspective" ELSE "ortho")]_vars

\* P held since an earlier poll, O released: the mode is still orthographic
C25_Witness ==
    /\ lastCall.last = Call("PrepareSceneView", {"P"})
    /\ viewManager.m_bPKeyPressed
    /\ ~ viewManager.m_bOKeyPressed
    /\ ~ viewManager.m_bPerspectiveProjection
    /\ uniforms["projection"].kind = "ortho"

====
